---------------------------- MODULE Spec2Model ----------------------------
(***************************************************************************)
(* USB Phone Charge Guard (ATtiny45/85), firmware v1.2:                    *)
(* src/software/PhoneChargeGuard.ino.                                      *)
(*                                                                         *)
(* The model follows main(): the setup sequence, then the endless loop,    *)
(* one action per block of the loop body, plus the Timer0 compare-match    *)
(* interrupt that increments the millis counter.                           *)
(*                                                                         *)
(* uint32_t values are pairs <<hi, lo>> of 16-bit limbs (value             *)
(* hi * 2^16 + lo), so that all arithmetic keeps its 32-bit width;         *)
(* uint16_t and uint8_t values are naturals reduced modulo 2^16 and 2^8.   *)
(***************************************************************************)
EXTENDS Integers, Sequences, FiniteSets

(***************************************************************************)
(* Fixed-width unsigned arithmetic                                         *)
(***************************************************************************)
W8  == 256
W16 == 256 * 256

\* uint16_t -> uint32_t conversion
From16(x) == <<0, x>>

\* a natural below 2^31 as a uint32_t
From31(n) == <<n \div W16, n % W16>>

\* uint32_t -> uint16_t conversion (keeps the low 16 bits)
Trunc16(a) == a[2]

Zero32 == <<0, 0>>

\* a + b modulo 2^32
Add32(a, b) ==
  LET s == a[2] + b[2]
  IN  <<(a[1] + b[1] + (s \div W16)) % W16, s % W16>>

\* a - b modulo 2^32
Sub32(a, b) ==
  LET d == a[2] - b[2]
      borrow == IF d < 0 THEN 1 ELSE 0
  IN  <<(a[1] - b[1] - borrow + W16) % W16, (d + W16) % W16>>

\* unsigned comparisons
Gt32(a, b) == a[1] > b[1] \/ (a[1] = b[1] /\ a[2] > b[2])
Ge32(a, b) == a[1] > b[1] \/ (a[1] = b[1] /\ a[2] >= b[2])

\* the full 32-bit product of two 16-bit limbs, as <<hi, lo>>
Mul16(x, y) ==
  LET yh == y \div W8
      yl == y % W8
      t  == x * yh
      lo == (t % W8) * W8 + x * yl
  IN  <<(t \div W8) + (lo \div W16), lo % W16>>

\* a * b modulo 2^32
Mul32(a, b) ==
  LET p0 == Mul16(a[2], b[2])
      p1 == Mul16(a[1], b[2])
      p2 == Mul16(a[2], b[1])
  IN  <<(p0[1] + p1[2] + p2[2]) % W16, p0[2]>>

\* a / d, truncating, for a 16-bit divisor 1 <= d <= 32767
Div32(a, d) ==
  LET r == a[1] % d
  IN  <<a[1] \div d, (r * W16 + a[2]) \div d>>


(***************************************************************************)
(* Program constants                                                       *)
(***************************************************************************)
EEPROM_IDENT == 42861                     \* 0xA76D

NO_KEY     == 0
KEY_SELECT == 1
KEY_INC    == 2
KEY_DEC    == 3
KEY_START  == 4

\* Limits, indexed by limit type   mAh    mWh    mA  min
limit_def == <<3000, 15000,  200, 180>>   \* initial value of limit_val[]
limit_min == << 500,  1000,  100,  10>>
limit_max == <<10000, 50000, 3000, 590>>
limit_inc == << 100,   500,  100,  10>>

\* C arrays are indexed from 0, TLA+ tuples from 1
At(arr, i) == arr[i + 1]

\* Button ADC thresholds
THRESHOLDS == <<896, 726, 597, 256, 0>>

\* dwell time of the current limit, in ms
DWELL_MS == 5000

\* saturation of the seconds counter
SECONDS_MAX == 35999

(***************************************************************************)
(* INA219 sensor driver: conversions of the raw register contents          *)
(***************************************************************************)
\* (reg >> 1) & 0xFFFC
INA_readVoltage(reg) == (reg \div 2) - ((reg \div 2) % 4)

INA_readCurrentSigned(reg) == IF reg > 32767 THEN 0 ELSE reg

\* negative (sign bit set) and tiny currents read as 0
INA_readCurrent(reg) ==
  LET r1 == IF reg > 32767 THEN 0 ELSE reg
  IN  IF r1 < 5 THEN 0 ELSE r1

(***************************************************************************)
(* Buttons: the number of thresholds above the ADC sample                  *)
(***************************************************************************)
RECURSIVE CountUp(_, _)
CountUp(raw, b) == IF raw < At(THRESHOLDS, b) THEN CountUp(raw, b + 1) ELSE b

readButton(raw) == CountUp(raw, 0)

(***************************************************************************)
(* EEPROM: 12 bytes; word 0 identifier, bytes 2..9 limit_val[] (little     *)
(* endian), byte 10 limit, byte 11 showValue                               *)
(***************************************************************************)
EE_SIZE == 12

Lo8(w) == w % W8

\* a variant that loses the high byte
HiLost(w) == 0

Hi8(w) == (w \div W8) % W8

eeprom_read_word(ee, a) == ee[a] + W8 * ee[a + 1]

eeprom_update_word(ee, a, w) ==
  [ee EXCEPT ![a] = Lo8(w), ![a + 1] = Hi8(w)]

\* a variant that saves the limit values only
EEPROM_updateValsOnly(ee, vals, lim, show) ==
  [a \in 0..(EE_SIZE - 1) |->
     IF a \in 2..9
       THEN LET w == At(vals, (a - 2) \div 2)
            IN  IF a % 2 = 0 THEN Lo8(w) ELSE Hi8(w)
       ELSE ee[a]]

\* EEPROM_update(): limit_val[] as the 8 bytes it occupies in memory, then
\* limit and showValue
EEPROM_update(ee, vals, lim, show) ==
  [a \in 0..(EE_SIZE - 1) |->
     IF a \in 2..9
       THEN LET w == At(vals, (a - 2) \div 2)
            IN  IF a % 2 = 0 THEN Lo8(w) ELSE Hi8(w)
       ELSE IF a = 10 THEN lim
       ELSE IF a = 11 THEN show
       ELSE ee[a]]

\* eeprom_read_block((void*)&limit_val, (const void*)2, 8)
EEPROM_readVals(ee) ==
  <<eeprom_read_word(ee, 2), eeprom_read_word(ee, 4),
    eeprom_read_word(ee, 6), eeprom_read_word(ee, 8)>>

\* an erased EEPROM
EE_ERASED == [a \in 0..(EE_SIZE - 1) |-> W8 - 1]

\* the EEPROM a previous run of this program leaves behind
EE_SAVED(vals, lim, show) ==
  EEPROM_update(eeprom_update_word(EE_ERASED, 0, EEPROM_IDENT), vals, lim, show)


(***************************************************************************)
(* Limit policy: the four stop conditions of the switch in main()          *)
(***************************************************************************)
\* variant: a strict comparison
ReachedCapacityStrict(cap, lv) == Gt32(Div32(cap, 1000), From16(lv))

\* case 0: (capacity / 1000) >= limit_val[0]
ReachedCapacity(cap, lv) == Ge32(Div32(cap, 1000), From16(lv))

\* variant: a strict comparison
ReachedEnergyStrict(en, lv) == Gt32(Div32(en, 1000), From16(lv))

\* case 1: (energy / 1000) >= limit_val[1]
ReachedEnergy(en, lv) == Ge32(Div32(en, 1000), From16(lv))

\* variant: the limit itself counts as below
BelowCurrentOrEqual(cur, lv) == cur <= lv

\* case 2: current < limit_val[2]
BelowCurrent(cur, lv) == cur < lv

\* case 2: nowmillis > limitmillis
DwellOver(now, lm) == Gt32(now, lm)

\* a variant that leaves the deadline unassigned
ArmDwellNot(now) == <<>>

\* limitmillis = nowmillis + 5000
ArmDwell(now) == Add32(now, From16(DWELL_MS))

\* case 3: minutes >= limit_val[3]
ReachedMinutes(mins, lv) == mins >= lv

(***************************************************************************)
(* Timing: seconds and minutes of the charge time (both uint16_t)          *)
(***************************************************************************)
\* a variant that saturates at the largest int16_t
\* a variant without the cap
SecondsUncapped(ct) == Trunc16(Div32(ct, 1000))

SecondsShort(ct) ==
  LET s == Trunc16(Div32(ct, 1000))
  IN  IF s > W16 \div 2 - 1 THEN W16 \div 2 - 1 ELSE s

\* seconds = chargetime / 1000; if(seconds > 35999) seconds = 35999;
Seconds(ct) ==
  LET s == Trunc16(Div32(ct, 1000))
  IN  IF s > SECONDS_MAX THEN SECONDS_MAX ELSE s

\* minutes = seconds / 60
Minutes(secs) == secs \div 60

(***************************************************************************)
(* Integration                                                             *)
(***************************************************************************)
\* power = (uint32_t)voltage * current / 1000, stored in a uint16_t
Power(v, c) == Trunc16(Div32(Mul32(From16(v), From16(c)), 1000))

IntervalNoBorrow(now, last) ==
  IF Ge32(now, last) THEN Sub32(now, last) ELSE Sub32(last, now)

\* interval = nowmillis - lastmillis, in uint32_t
Interval(now, last) == Sub32(now, last)

ChargeTimeAlways(ch, ct, iv) == Add32(ct, iv)

\* if(isCharging) chargetime += interval
ChargeTime(ch, ct, iv) == IF ch # 0 THEN Add32(ct, iv) ELSE ct

IncrementCeil(iv, x) == Div32(Add32(Mul32(iv, From16(x)), From16(3599)), 3600)

\* interval * x / 3600 in 32-bit unsigned arithmetic
Increment(iv, x) == Div32(Mul32(iv, From16(x)), 3600)

(***************************************************************************)
(* State                                                                   *)
(***************************************************************************)
VARIABLES
  pc,           \* position of main()
  ret,          \* caller of MIL_read(): "setup" or "loop"
  iflag,        \* global interrupt enable (SREG I bit)
  timsk,        \* Timer0 compare match A interrupt enable (TIMSK OCIE0A)
  MIL_counter,  \* millis counter, written by the ISR
  mil_result,   \* local of MIL_read()
  eeprom,       \* EEPROM contents
  pinEnable,    \* PORTB bit PIN_ENABLE: 1 = MOSFET on
  limit, showValue, limit_val,
  ina_result,   \* local of INA_readCurrent(): the current register as read
  voltage, current, power,
  lastmillis, nowmillis, interval, limitmillis,
  chargetime, seconds, minutes, capacity, energy,
  lastbutton, button, isCharging,
  oled,         \* what the last display update printed
  cycle,        \* number of completed loop iterations, counted up to E.cycles
  ticked        \* timer steps since the last read of the counter

timerVars  == <<iflag, timsk, MIL_counter, mil_result, ticked>>
configVars == <<limit, showValue, limit_val>>
sampleVars == <<ina_result, voltage, current>>
timingVars == <<lastmillis, nowmillis, interval, chargetime, seconds, minutes>>
totalVars  == <<power, capacity, energy>>
buttonVars == <<lastbutton, button>>

vars == <<pc, ret, iflag, timsk, MIL_counter, mil_result, eeprom, pinEnable,
          limit, showValue, limit_val, ina_result, voltage, current, power,
          lastmillis, nowmillis, interval, limitmillis,
          chargetime, seconds, minutes, capacity, energy,
          lastbutton, button, isCharging, oled, cycle, ticked>>

\* a local that has not been assigned yet
UNINIT == <<>>

\* what reading an unassigned uint32_t may yield
GARBAGE32 == {Zero32, <<W16 - 1, W16 - 1>>}

ReadLocal32(v) == IF v = UNINIT THEN GARBAGE32 ELSE {v}


(***************************************************************************)
(* Button actions                                                          *)
(***************************************************************************)
\* a variant that takes a held button for a new press
IsPressed(b, last) == TRUE

\* button != lastbutton
IsEdge(b, last) == b # last

\* a variant that advances the limit kind while charging, too
SelectKindAlways(lt, ch) == (lt + 1) % W8

\* KEY_SELECT: if(isCharging) showValue++; else limit++;
SelectKind(lt, ch) == IF ch # 0 THEN lt ELSE (lt + 1) % W8

SelectMode(sv, ch) == IF ch # 0 THEN (sv + 1) % W8 ELSE sv

\* if(limit > 3) limit = 0;
WrapKind(lt) == IF lt > 3 THEN 0 ELSE lt

\* a variant that wraps the display mode one step late
WrapModeLate(sv) == IF sv > 3 THEN 0 ELSE sv

\* if(showValue > 2) showValue = 0;
WrapMode(sv) == IF sv > 2 THEN 0 ELSE sv

\* a variant that saves the settings with every button
StoreAfterAnyKey(b, last, ee, vals, lim, show) ==
  IF b # NO_KEY THEN EEPROM_update(ee, vals, lim, show) ELSE ee

\* the EEPROM after the switch(button): EEPROM_update() is called under
\* case KEY_START: if(button != lastbutton), and nowhere else in the loop
StoreAfterKey(b, last, ee, vals, lim, show) ==
  IF b = KEY_START /\ IsEdge(b, last) THEN EEPROM_update(ee, vals, lim, show) ELSE ee

\* a variant that still steps up at the maximum
\* a variant that steps by one unit
IncreasedByOne(v, k) ==
  IF v < At(limit_max, k) THEN (v + 1) % W16 ELSE v

IncreasedAtMax(v, k) ==
  IF v <= At(limit_max, k) THEN (v + At(limit_inc, k)) % W16 ELSE v

\* KEY_INC: limit_val[limit] += limit_inc[limit] below the maximum
Increased(v, k) ==
  IF v < At(limit_max, k) THEN (v + At(limit_inc, k)) % W16 ELSE v

\* a variant that still steps down at the minimum
DecreasedAtMin(v, k) ==
  IF v >= At(limit_min, k) THEN (v - At(limit_inc, k) + W16) % W16 ELSE v

\* KEY_DEC: limit_val[limit] -= limit_inc[limit] above the minimum
Decreased(v, k) ==
  IF v > At(limit_min, k) THEN (v - At(limit_inc, k) + W16) % W16 ELSE v

\* a variant that leaves the pin as it is
PinKept(ch, pin) == pin

\* a variant that never switches the pin on
PinLow(ch) == 0

\* a variant that only ever switches the pin on
PinHigh(ch) == 1

\* if(!isCharging) pinLow(PIN_ENABLE), after the limit check
PinAfterLimit(ch, pin) == IF ch = 0 THEN 0 ELSE pin

\* isCharging ? pinHigh(PIN_ENABLE) : pinLow(PIN_ENABLE)
PinAfterStart(ch) == IF ch # 0 THEN 1 ELSE 0

\* !isCharging
Not8(x) == IF x = 0 THEN 1 ELSE 0

(***************************************************************************)
(* Initial state: entry of main(). The environment E gives the EEPROM      *)
(* contents found at power-up and the inputs of the run:                   *)
(*   E.eeprom  EEPROM images         E.volts  raw bus voltage registers    *)
(*   E.amps    raw current registers E.adc    ADC samples of the buttons   *)
(*   E.ticks   numbers of timer interrupts served in one step              *)
(*   E.maxticks  timer steps explored between two reads of the counter     *)
(*   E.cycles    number of loop iterations that are counted                *)
(*   E.endless   whether the loop is followed beyond them                  *)
(*   E.later     ADC samples of the buttons beyond them                    *)
(*   E.until     counter value from which the timer is not followed any    *)
(*               further, FOREVER for none                                 *)
(* Locals without initialiser that main() assigns before every use start   *)
(* as 0; limitmillis, whose first assignment depends on the buttons,       *)
(* starts as UNINIT.                                                       *)
(***************************************************************************)
FOREVER == <<>>

\* ADC samples decoding to NO_KEY, SELECT, INC, DEC, START
ADC_NONE   == 1023
ADC_SELECT == 800
ADC_INC    == 650
ADC_DEC    == 400
ADC_START  == 100

OLED_BLANK == [limit |-> 0, unit |-> 0, charging |-> 0, time |-> <<>>, value |-> <<>>]

Init(E) ==
  /\ pc = "setup"
  /\ ret = "setup"
  /\ iflag = 0
  /\ timsk = 0
  /\ MIL_counter = Zero32
  /\ mil_result = Zero32
  /\ eeprom \in E.eeprom
  /\ pinEnable = 0
  /\ limit = 0
  /\ showValue = 0
  /\ limit_val = limit_def
  /\ ina_result = 0
  /\ voltage = 0
  /\ current = 0
  /\ power = 0
  /\ lastmillis = Zero32
  /\ nowmillis = Zero32
  /\ interval = Zero32
  /\ limitmillis = UNINIT
  /\ chargetime = Zero32
  /\ seconds = 0
  /\ minutes = 0
  /\ capacity = Zero32
  /\ energy = Zero32
  /\ lastbutton = 0
  /\ button = 0
  /\ isCharging = 0
  /\ oled = OLED_BLANK
  /\ cycle = 0
  /\ ticked = 0

(***************************************************************************)
(* Setup                                                                   *)
(***************************************************************************)
\* pinOutput(PIN_ENABLE) ... OLED_clearScreen(); MIL_init() enables the
\* compare match interrupt, the global interrupt flag stays as it is
Setup ==
  /\ pc = "setup"
  /\ timsk' = 1
  /\ pc' = "eeprom"
  /\ UNCHANGED <<ret, iflag, MIL_counter, mil_result, ticked, eeprom, pinEnable,
                 configVars, sampleVars, timingVars, totalVars, buttonVars,
                 limitmillis, isCharging, oled, cycle>>

\* EEPROM_get(), then the call lastmillis = MIL_read()
EEPROM_get ==
  /\ pc = "eeprom"
  /\ IF eeprom_read_word(eeprom, 0) = EEPROM_IDENT
       THEN /\ limit_val' = EEPROM_readVals(eeprom)
            /\ limit' = eeprom[10]
            /\ showValue' = eeprom[11]
            /\ UNCHANGED eeprom
       ELSE /\ eeprom' = EEPROM_update(eeprom_update_word(eeprom, 0, EEPROM_IDENT),
                                       limit_val, limit, showValue)
            /\ UNCHANGED configVars
  /\ pc' = "mil_cli"
  /\ ret' = "setup"
  /\ UNCHANGED <<timerVars, pinEnable, sampleVars, timingVars, totalVars,
                 buttonVars, limitmillis, isCharging, oled, cycle>>

(***************************************************************************)
(* Millis counter                                                          *)
(***************************************************************************)
MIL_read_nocli ==
  /\ pc = "mil_cli"
  /\ iflag' = iflag
  /\ pc' = "mil_load"
  /\ UNCHANGED <<ret, timsk, MIL_counter, mil_result, ticked, eeprom, pinEnable,
                 configVars, sampleVars, timingVars, totalVars, buttonVars,
                 limitmillis, isCharging, oled, cycle>>

\* cli()
MIL_read_cli ==
  /\ pc = "mil_cli"
  /\ iflag' = 0
  /\ pc' = "mil_load"
  /\ UNCHANGED <<ret, timsk, MIL_counter, mil_result, ticked, eeprom, pinEnable,
                 configVars, sampleVars, timingVars, totalVars, buttonVars,
                 limitmillis, isCharging, oled, cycle>>

\* byte k (0 the lowest) of the uint32_t a
Byte(a, k) ==
  IF k = 0 THEN a[2] % W8
  ELSE IF k = 1 THEN a[2] \div W8
  ELSE IF k = 2 THEN a[1] % W8
  ELSE a[1] \div W8

\* the uint32_t r with its byte k replaced by byte b
WithByte(r, k, b) ==
  IF k = 0 THEN <<r[1], (r[2] \div W8) * W8 + b>>
  ELSE IF k = 1 THEN <<r[1], b * W8 + (r[2] % W8)>>
  ELSE IF k = 2 THEN <<(r[1] \div W8) * W8 + b, r[2]>>
  ELSE <<b * W8 + (r[1] % W8), r[2]>>

\* where MIL_read is while it loads byte 0, 1, 2, 3, and after the last
LoadAt == <<"mil_load", "mil_load1", "mil_load2", "mil_load3", "mil_sei">>

\* uint32_t result = MIL_counter: four loads of one byte each on the 8-bit
\* CPU, lowest byte first
MIL_read_load ==
  /\ \E k \in 0 .. 3 :
       /\ pc = LoadAt[k + 1]
       /\ mil_result' = WithByte(mil_result, k, Byte(MIL_counter, k))
       /\ ticked' = IF k = 0 THEN 0 ELSE ticked
       /\ pc' = LoadAt[k + 2]
  /\ UNCHANGED <<ret, iflag, timsk, MIL_counter, eeprom, pinEnable,
                 configVars, sampleVars, timingVars, totalVars, buttonVars,
                 limitmillis, isCharging, oled, cycle>>

MIL_read_nosei ==
  /\ pc = "mil_sei"
  /\ iflag' = iflag
  /\ IF ret = "setup"
       THEN /\ lastmillis' = mil_result
            /\ pc' = "sense"
            /\ UNCHANGED nowmillis
       ELSE /\ nowmillis' = mil_result
            /\ pc' = "timing"
            /\ UNCHANGED lastmillis
  /\ UNCHANGED <<ret, timsk, MIL_counter, mil_result, ticked, eeprom, pinEnable,
                 configVars, sampleVars, interval, chargetime, seconds, minutes,
                 totalVars, buttonVars, limitmillis, isCharging, oled, cycle>>

\* sei(); return result -- to lastmillis before the loop, to nowmillis in it
MIL_read_sei ==
  /\ pc = "mil_sei"
  /\ iflag' = 1
  /\ IF ret = "setup"
       THEN /\ lastmillis' = mil_result
            /\ pc' = "sense"
            /\ UNCHANGED nowmillis
       ELSE /\ nowmillis' = mil_result
            /\ pc' = "timing"
            /\ UNCHANGED lastmillis
  /\ UNCHANGED <<ret, timsk, MIL_counter, mil_result, ticked, eeprom, pinEnable,
                 configVars, sampleVars, interval, chargetime, seconds, minutes,
                 totalVars, buttonVars, limitmillis, isCharging, oled, cycle>>

TickTwice(E) ==
  /\ timsk = 1
  /\ iflag = 1
  /\ ticked < E.maxticks
  /\ IF E.until = FOREVER THEN TRUE ELSE Gt32(E.until, MIL_counter)
  /\ \E d \in E.ticks : MIL_counter' = Add32(Add32(MIL_counter, d), d)
  /\ ticked' = ticked + 1
  /\ UNCHANGED <<pc, ret, iflag, timsk, mil_result, eeprom, pinEnable,
                 configVars, sampleVars, timingVars, totalVars, buttonVars,
                 limitmillis, isCharging, oled, cycle>>

\* ISR(TIM0_COMPA_vect): MIL_counter++, served d times in a row
Tick(E) ==
  /\ timsk = 1
  /\ iflag = 1
  /\ ticked < E.maxticks
  /\ IF E.until = FOREVER THEN TRUE ELSE Gt32(E.until, MIL_counter)
  /\ \E d \in E.ticks : MIL_counter' = Add32(MIL_counter, d)
  /\ ticked' = ticked + 1
  /\ UNCHANGED <<pc, ret, iflag, timsk, mil_result, eeprom, pinEnable,
                 configVars, sampleVars, timingVars, totalVars, buttonVars,
                 limitmillis, isCharging, oled, cycle>>


(***************************************************************************)
(* Main loop                                                               *)
(***************************************************************************)
\* voltage = INA_readVoltage(); current = INA_readCurrent();
\* then the call nowmillis = MIL_read()
ReadSensor(E) ==
  /\ pc = "sense"
  /\ cycle < E.cycles \/ E.endless
  /\ \E rv \in E.volts : voltage' = INA_readVoltage(rv)
  /\ \E rc \in E.amps : ina_result' = rc /\ current' = INA_readCurrent(rc)
  /\ pc' = "mil_cli"
  /\ ret' = "loop"
  /\ UNCHANGED <<timerVars, eeprom, pinEnable, configVars, timingVars, totalVars,
                 buttonVars, limitmillis, isCharging, oled, cycle>>

\* interval, lastmillis, chargetime, seconds, minutes
CalcTimings ==
  /\ pc = "timing"
  /\ interval' = Interval(nowmillis, lastmillis)
  /\ lastmillis' = nowmillis
  /\ chargetime' = ChargeTime(isCharging, chargetime, interval')
  /\ seconds' = Seconds(chargetime')
  /\ minutes' = Minutes(seconds')
  /\ pc' = "totals"
  /\ UNCHANGED <<ret, timerVars, eeprom, pinEnable, configVars, sampleVars, nowmillis,
                 totalVars, buttonVars, limitmillis, isCharging, oled, cycle>>

CalcTotalsWhileCharging ==
  /\ pc = "totals"
  /\ power' = Power(voltage, current)
  /\ capacity' = IF isCharging # 0
                 THEN Add32(capacity, Increment(interval, current))
                 ELSE capacity
  /\ energy' = IF isCharging # 0
               THEN Add32(energy, Increment(interval, power'))
               ELSE energy
  /\ pc' = "limit"
  /\ UNCHANGED <<ret, timerVars, eeprom, pinEnable, configVars, sampleVars, timingVars,
                 buttonVars, limitmillis, isCharging, oled, cycle>>

CalcTotalsSkipsLimit ==
  /\ pc = "totals"
  /\ power' = Power(voltage, current)
  /\ capacity' = Add32(capacity, Increment(interval, current))
  /\ energy' = Add32(energy, Increment(interval, power'))
  /\ pc' = "button"
  /\ UNCHANGED <<ret, timerVars, eeprom, pinEnable, configVars, sampleVars, timingVars,
                 buttonVars, limitmillis, isCharging, oled, cycle>>

\* power, capacity, energy
CalcTotals ==
  /\ pc = "totals"
  /\ power' = Power(voltage, current)
  /\ capacity' = Add32(capacity, Increment(interval, current))
  /\ energy' = Add32(energy, Increment(interval, power'))
  /\ pc' = "limit"
  /\ UNCHANGED <<ret, timerVars, eeprom, pinEnable, configVars, sampleVars, timingVars,
                 buttonVars, limitmillis, isCharging, oled, cycle>>

\* the switch(limit) under if(isCharging): whether charging stops
LimitStop(lm) ==
  CASE limit = 0 -> ReachedCapacity(capacity, At(limit_val, 0))
    [] limit = 1 -> ReachedEnergy(energy, At(limit_val, 1))
    [] limit = 2 -> BelowCurrent(current, At(limit_val, 2)) /\ DwellOver(nowmillis, lm)
    [] limit = 3 -> ReachedMinutes(minutes, At(limit_val, 3))
    [] OTHER -> FALSE

\* case 2, else branch: limitmillis = nowmillis + 5000
LimitRearm == limit = 2 /\ ~BelowCurrent(current, At(limit_val, 2))

\* Check if charging limit is reached
CheckLimit ==
  /\ pc = "limit"
  /\ IF isCharging # 0
       THEN \E lm \in ReadLocal32(limitmillis) :
              /\ isCharging' = IF LimitStop(lm) THEN 0 ELSE isCharging
              /\ limitmillis' = IF LimitRearm THEN ArmDwell(nowmillis) ELSE limitmillis
              /\ pinEnable' = PinAfterLimit(isCharging', pinEnable)
       ELSE UNCHANGED <<isCharging, limitmillis, pinEnable>>
  /\ pc' = "button"
  /\ UNCHANGED <<ret, timerVars, eeprom, configVars, sampleVars, timingVars, totalVars,
                 buttonVars, oled, cycle>>

\* Check button and take proper action
CheckButton(E) ==
  /\ pc = "button"
  /\ \E raw \in (IF cycle < E.cycles THEN E.adc ELSE E.later) :
       LET b == readButton(raw)
       IN  /\ button' = b
           /\ CASE b = KEY_SELECT /\ IsEdge(b, lastbutton) ->
                     /\ limit' = WrapKind(SelectKind(limit, isCharging))
                     /\ showValue' = WrapMode(SelectMode(showValue, isCharging))
                     /\ UNCHANGED <<limit_val, isCharging, pinEnable, limitmillis>>
                [] b = KEY_INC /\ isCharging = 0 ->
                     /\ limit_val' = [limit_val EXCEPT
                                        ![limit + 1] = Increased(At(limit_val, limit), limit)]
                     /\ UNCHANGED <<limit, showValue, isCharging, pinEnable, limitmillis>>
                [] b = KEY_DEC /\ isCharging = 0 ->
                     /\ limit_val' = [limit_val EXCEPT
                                        ![limit + 1] = Decreased(At(limit_val, limit), limit)]
                     /\ UNCHANGED <<limit, showValue, isCharging, pinEnable, limitmillis>>
                [] b = KEY_START /\ IsEdge(b, lastbutton) ->
                     /\ isCharging' = Not8(isCharging)
                     /\ pinEnable' = PinAfterStart(isCharging')
                     /\ limitmillis' = ArmDwell(nowmillis)
                     /\ UNCHANGED configVars
                [] OTHER ->
                     UNCHANGED <<configVars, isCharging, pinEnable, limitmillis>>
  /\ eeprom' = StoreAfterKey(button', lastbutton, eeprom, limit_val', limit', showValue')
  /\ lastbutton' = button'
  /\ pc' = "oled"
  /\ UNCHANGED <<ret, timerVars, sampleVars, timingVars, totalVars, oled, cycle>>

\* Update OLED: limit, state, elapsed time if showValue is set, and the
\* values selected by showValue (OLED_printDec16 takes a uint16_t)
UpdateOLED ==
  /\ pc = "oled"
  /\ oled' = [limit    |-> At(limit_val, limit),
              unit     |-> limit,
              charging |-> isCharging,
              time     |-> IF showValue # 0
                             THEN <<minutes \div 60, minutes % 60, seconds % 60>>
                             ELSE <<>>,
              value    |-> CASE showValue = 0 -> <<voltage, current>>
                             [] showValue = 1 -> <<Trunc16(Div32(capacity, 1000))>>
                             [] showValue = 2 -> <<Trunc16(Div32(energy, 1000))>>
                             [] OTHER -> <<>>]
  /\ pc' = "delay"
  /\ UNCHANGED <<ret, timerVars, eeprom, pinEnable, configVars, sampleVars, timingVars,
                 totalVars, buttonVars, limitmillis, isCharging, cycle>>

\* _delay_ms(125), back to the top of the loop
Delay(E) ==
  /\ pc = "delay"
  /\ pc' = "sense"
  /\ cycle' = IF cycle < E.cycles THEN cycle + 1 ELSE cycle
  /\ UNCHANGED <<ret, timerVars, eeprom, pinEnable, configVars, sampleVars, timingVars,
                 totalVars, buttonVars, limitmillis, isCharging, oled>>

Next(E) ==
  \/ Setup
  \/ EEPROM_get
  \/ MIL_read_cli
  \/ MIL_read_load
  \/ MIL_read_sei
  \/ Tick(E)
  \/ ReadSensor(E)
  \/ CalcTimings
  \/ CalcTotals
  \/ CheckLimit
  \/ CheckButton(E)
  \/ UpdateOLED
  \/ Delay(E)

\* Power is lost and comes back: main() is entered again with the RAM
\* initialised anew, PIN_ENABLE low and the display blank; the EEPROM keeps
\* its contents. The count of loop iterations goes on.
PowerCycle ==
  /\ pc # "setup"
  /\ pc' = "setup"
  /\ ret' = "setup"
  /\ iflag' = 0
  /\ timsk' = 0
  /\ MIL_counter' = Zero32
  /\ mil_result' = Zero32
  /\ pinEnable' = 0
  /\ limit' = 0
  /\ showValue' = 0
  /\ limit_val' = limit_def
  /\ ina_result' = 0
  /\ voltage' = 0
  /\ current' = 0
  /\ power' = 0
  /\ lastmillis' = Zero32
  /\ nowmillis' = Zero32
  /\ interval' = Zero32
  /\ limitmillis' = UNINIT
  /\ chargetime' = Zero32
  /\ seconds' = 0
  /\ minutes' = 0
  /\ capacity' = Zero32
  /\ energy' = Zero32
  /\ lastbutton' = 0
  /\ button' = 0
  /\ isCharging' = 0
  /\ oled' = OLED_BLANK
  /\ ticked' = 0
  /\ UNCHANGED <<eeprom, cycle>>

\* the program on a device that may lose power at any time
NextPower(E) ==
  \/ Next(E)
  \/ PowerCycle

\* the steps of main(), without the interrupt
Main(E) ==
  \/ Setup
  \/ EEPROM_get
  \/ MIL_read_cli
  \/ MIL_read_load
  \/ MIL_read_sei
  \/ ReadSensor(E)
  \/ CalcTimings
  \/ CalcTotals
  \/ CheckLimit
  \/ CheckButton(E)
  \/ UpdateOLED
  \/ Delay(E)

(***************************************************************************)
(* Environments and specifications                                         *)
(***************************************************************************)
MaxTicks       == 1
MaxCycles      == 3
MaxCyclesLimit == 4
MaxCyclesAdjust == 2
MaxCyclesDwell  == 3
MaxCyclesLive   == 1
MaxCyclesStore  == 3
MaxCyclesLong   == 1
MaxStepsLong    == 4000
MaxCyclesMeter  == 3
MaxCyclesPower  == 2
MaxCyclesWrap   == 2
MaxCyclesTick   == 2
MaxTicksTick    == 3
MaxCyclesSense  == 2
MaxCyclesClock  == 4
MaxCyclesEven   == 3

\* bus voltage register for 5000 mV: 1250 * 4 mV, in bits 3..15
REG_5V == 10000

AllKeys == {ADC_NONE, ADC_SELECT, ADC_INC, ADC_DEC, ADC_START}

\* every limit at its minimum
limit_low == limit_min

\* All buttons; the current limit (200 mA) is undercut by the 150 mA load,
\* and one timer step outlasts the dwell time.
EnvAll ==
  [eeprom |-> {EE_ERASED, EE_SAVED(limit_def, 2, 0)},
   volts |-> {REG_5V},
   amps |-> {150},
   adc |-> AllKeys,
   ticks |-> {From16(DWELL_MS + 1)},
   maxticks |-> MaxTicks,
   cycles |-> MaxCycles,
   endless |-> FALSE,
   later |-> {ADC_NONE},
   until |-> FOREVER]

Spec == Init(EnvAll) /\ [][Next(EnvAll)]_vars

\* Charge and energy limits at their minimum (500 mAh, 1000 mWh); at 5 V and
\* 1 A a step of 30 min adds 500 mAh, a step of 6 min adds 100 mAh and 500 mWh.
EnvCharge ==
  [eeprom |-> {EE_SAVED(limit_low, 0, 0), EE_SAVED(limit_low, 1, 0)},
   volts |-> {REG_5V},
   amps |-> {1000},
   adc |-> {ADC_NONE, ADC_START},
   ticks |-> {From31(1800000), From31(360000)},
   maxticks |-> MaxTicks,
   cycles |-> MaxCyclesLimit,
   endless |-> FALSE,
   later |-> {ADC_NONE},
   until |-> FOREVER]

SpecCharge == Init(EnvCharge) /\ [][Next(EnvCharge)]_vars

\* Current limit 200 mA; the load draws 150 mA or 200 mA; the counter is
\* taken to 5001 ms before its wrap, or advances by 2600 ms.
EnvDwell ==
  [eeprom |-> {EE_SAVED(limit_def, 2, 0)},
   volts |-> {REG_5V},
   amps |-> {150, 200},
   adc |-> {ADC_NONE, ADC_START},
   ticks |-> {Sub32(Zero32, From16(DWELL_MS + 1)), From16(2600)},
   maxticks |-> MaxTicks,
   cycles |-> MaxCyclesDwell,
   endless |-> FALSE,
   later |-> {ADC_NONE},
   until |-> FOREVER]

SpecDwell == Init(EnvDwell) /\ [][Next(EnvDwell)]_vars


\* Time limit 180 min; the counter advances by 1 h, or by 66 000 s (more
\* than the 65 535 s a uint16_t holds).
EnvMinutes ==
  [eeprom |-> {EE_SAVED(limit_def, 3, 0)},
   volts |-> {REG_5V},
   amps |-> {150},
   adc |-> {ADC_NONE, ADC_START},
   ticks |-> {From31(3600000), From31(66000000)},
   maxticks |-> MaxTicks,
   cycles |-> MaxCyclesLimit,
   endless |-> FALSE,
   later |-> {ADC_NONE},
   until |-> FOREVER]

SpecMinutes == Init(EnvMinutes) /\ [][Next(EnvMinutes)]_vars

\* limit_val[] with the time limit set to v minutes
WithMinutes(v) == [limit_def EXCEPT ![4] = v]

\* Time limit at its minimum and at its maximum; the load draws no
\* measurable current; buttons are pressed in the first MaxCyclesLive cycles and
\* the device is then left alone; the loop runs for ever while the counter
\* advances by 2^24 ms (4.66 h, less than the 30 136 s between the largest
\* limit and the wrap of the uint16_t seconds) per timer step.
EnvLive ==
  [eeprom |-> {EE_SAVED(WithMinutes(v), 3, 0) : v \in {At(limit_min, 3), At(limit_max, 3)}},
   volts |-> {REG_5V},
   amps |-> {3},
   adc |-> {ADC_NONE, ADC_START},
   ticks |-> {<<W8, 0>>},
   maxticks |-> MaxTicks,
   cycles |-> MaxCyclesLive,
   endless |-> TRUE,
   later |-> {ADC_NONE},
   until |-> FOREVER]

\* main() always takes its next step, and the timer interrupt is served
\* whenever interrupts are enabled again
SpecLive ==
  /\ Init(EnvLive)
  /\ [][Next(EnvLive)]_vars
  /\ WF_vars(Main(EnvLive))
  /\ SF_vars(Tick(EnvLive))

\* The default limit values with each kind selected; every button in the
\* first MaxCyclesAdjust cycles, then INC and DEC in any order and number;
\* no measurable current; the counter advances by 2^31 ms per timer step.
EnvAdjust ==
  [eeprom |-> {EE_ERASED} \cup {EE_SAVED(limit_def, k, 0) : k \in 0..3},
   volts |-> {REG_5V},
   amps |-> {3},
   adc |-> AllKeys,
   ticks |-> {<<W16 \div 2, 0>>},
   maxticks |-> MaxTicks,
   cycles |-> MaxCyclesAdjust,
   endless |-> TRUE,
   later |-> {ADC_NONE, ADC_INC, ADC_DEC},
   until |-> FOREVER]

SpecAdjust == Init(EnvAdjust) /\ [][Next(EnvAdjust)]_vars

\* An EEPROM that carries the identifier over contents this program has not
\* saved: erased limit values (0xFFFF), kind 3, display mode 0xFF
EE_FOREIGN == EE_SAVED(<<W16 - 1, W16 - 1, W16 - 1, W16 - 1>>, 3, W8 - 1)

\* An erased EEPROM or one with foreign contents; all buttons.
EnvForeign ==
  [eeprom |-> {EE_ERASED, EE_FOREIGN},
   volts |-> {REG_5V},
   amps |-> {150},
   adc |-> AllKeys,
   ticks |-> {From16(DWELL_MS + 1)},
   maxticks |-> MaxTicks,
   cycles |-> MaxCyclesStore,
   endless |-> FALSE,
   later |-> {ADC_NONE},
   until |-> FOREVER]

SpecForeign == Init(EnvForeign) /\ [][Next(EnvForeign)]_vars

\* An erased EEPROM, or the default limits saved with the last kind and the
\* last display mode selected; all buttons; power may be lost at any time.
EnvStore ==
  [eeprom |-> {EE_ERASED, EE_SAVED(limit_def, 3, 2)},
   volts |-> {REG_5V},
   amps |-> {150},
   adc |-> AllKeys,
   ticks |-> {From16(DWELL_MS + 1)},
   maxticks |-> MaxTicks,
   cycles |-> MaxCyclesStore,
   endless |-> FALSE,
   later |-> {ADC_NONE},
   until |-> FOREVER]

SpecStore == Init(EnvStore) /\ [][NextPower(EnvStore)]_vars

\* bus voltage register for 20000 mV
REG_20V == 40000

\* bus voltage register for 1000 mV
REG_1V == 2000

\* A load of 3 A at 20 V (60 W) for as long as the energy counter takes to
\* pass 2^32 uWh: the counter advances by 2^16 ms per timer step, which adds
\* 1 092 266 uWh per cycle, for 4000 steps.
EnvLong ==
  [eeprom |-> {EE_SAVED(limit_def, 2, 0)},
   volts |-> {REG_20V},
   amps |-> {3000},
   adc |-> {ADC_NONE, ADC_START},
   ticks |-> {<<1, 0>>},
   maxticks |-> MaxTicks,
   cycles |-> MaxCyclesLong,
   endless |-> TRUE,
   later |-> {ADC_NONE},
   until |-> <<MaxStepsLong, 0>>]

SpecLong == Init(EnvLong) /\ [][Next(EnvLong)]_vars

\* Cycles of 1 ms and of 3600 ms at 20 V with loads of 5 mA (the smallest
\* current the sensor driver returns) and 1 A (100 mW and 20 W).
EnvMeter ==
  [eeprom |-> {EE_SAVED(limit_def, 2, 0)},
   volts |-> {REG_20V},
   amps |-> {5, 1000},
   adc |-> {ADC_NONE, ADC_START},
   ticks |-> {From16(1), From16(3600)},
   maxticks |-> MaxTicks,
   cycles |-> MaxCyclesMeter,
   endless |-> FALSE,
   later |-> {ADC_NONE},
   until |-> FOREVER]

SpecMeter == Init(EnvMeter) /\ [][Next(EnvMeter)]_vars

\* Cycles of 1 ms and of 3600 ms at 20 V with loads of 1 A and 4 A (20 W and
\* 80 W).
EnvPower ==
  [eeprom |-> {EE_SAVED(limit_def, 2, 0)},
   volts |-> {REG_20V},
   amps |-> {1000, 4000},
   adc |-> {ADC_NONE, ADC_START},
   ticks |-> {From16(1), From16(3600)},
   maxticks |-> MaxTicks,
   cycles |-> MaxCyclesPower,
   endless |-> FALSE,
   later |-> {ADC_NONE},
   until |-> FOREVER]

SpecPower == Init(EnvPower) /\ [][Next(EnvPower)]_vars

\* The counter goes to 4294967290 in one step and on by 11 in the next.
EnvWrap ==
  [eeprom |-> {EE_SAVED(limit_def, 2, 0)},
   volts |-> {REG_5V},
   amps |-> {150, 1000},
   adc |-> {ADC_NONE, ADC_START},
   ticks |-> {<<W16 - 1, W16 - 6>>, From16(11)},
   maxticks |-> MaxTicks,
   cycles |-> MaxCyclesWrap,
   endless |-> FALSE,
   later |-> {ADC_NONE},
   until |-> FOREVER]

SpecWrap == Init(EnvWrap) /\ [][Next(EnvWrap)]_vars

\* The timer interrupt is served once at a time, up to MaxTicksTick times
\* between two reads of the counter.
EnvTick ==
  [eeprom |-> {EE_SAVED(limit_def, 2, 0)},
   volts |-> {REG_5V},
   amps |-> {150},
   adc |-> {ADC_NONE, ADC_START},
   ticks |-> {From16(1)},
   maxticks |-> MaxTicksTick,
   cycles |-> MaxCyclesTick,
   endless |-> FALSE,
   later |-> {ADC_NONE},
   until |-> FOREVER]

SpecTick == Init(EnvTick) /\ [][Next(EnvTick)]_vars

\* The current register at the ends of its range and on both sides of the
\* two thresholds of the driver.
EnvSense ==
  [eeprom |-> {EE_SAVED(limit_def, 2, 0)},
   volts |-> {REG_5V},
   amps |-> {0, 4, 5, 32767, 32768, W16 - 1},
   adc |-> {ADC_NONE, ADC_START},
   ticks |-> {From16(3600)},
   maxticks |-> MaxTicks,
   cycles |-> MaxCyclesSense,
   endless |-> FALSE,
   later |-> {ADC_NONE},
   until |-> FOREVER]

SpecSense == Init(EnvSense) /\ [][Next(EnvSense)]_vars

\* Time limit at its maximum of 590 min, the elapsed time on display; the
\* counter advances by 2^24 ms (16 777 s) per timer step, so that the charge
\* time passes 35 999 s in the third cycle after START.
EnvClock ==
  [eeprom |-> {EE_SAVED(WithMinutes(At(limit_max, 3)), 3, 1)},
   volts |-> {REG_5V},
   amps |-> {3},
   adc |-> {ADC_NONE, ADC_START},
   ticks |-> {<<W8, 0>>},
   maxticks |-> MaxTicks,
   cycles |-> MaxCyclesClock,
   endless |-> FALSE,
   later |-> {ADC_NONE},
   until |-> FOREVER]

SpecClock == Init(EnvClock) /\ [][Next(EnvClock)]_vars

\* Charge limit at its minimum of 500 mAh; 3600 mA at 1000 mV (3600 mW), so
\* that a cycle of n ms adds exactly n uAh and n uWh; the counter advances
\* by 500 000 ms (500 mAh) per timer step.
EnvEven ==
  [eeprom |-> {EE_SAVED(limit_low, 0, 0)},
   volts |-> {REG_1V},
   amps |-> {3600},
   adc |-> {ADC_NONE, ADC_START},
   ticks |-> {From31(500000)},
   maxticks |-> MaxTicks,
   cycles |-> MaxCyclesEven,
   endless |-> FALSE,
   later |-> {ADC_NONE},
   until |-> FOREVER]

SpecEven == Init(EnvEven) /\ [][Next(EnvEven)]_vars

(***************************************************************************)
(* Properties                                                              *)
(***************************************************************************)
\* a uint32_t in thousands (uAh -> mAh, uWh -> mWh, ms -> s), as a natural
Thousands(a) == Div32(a, 1000)[1] * W16 + Div32(a, 1000)[2]

\* the step taken is the limit check of a cycle that entered it charging
LimitStepCharging == pc = "limit" /\ pc' = "button" /\ isCharging # 0

\* the limit check of this cycle has just stopped the charging: the display
\* of the previous cycle still showed CHARGE, and the button is not read yet
StoppedByLimit ==
  pc = "button" /\ oled.charging = 1 /\ isCharging = 0 /\ pinEnable = 0

\* C1: with the mAh limit selected, the limit check of a cycle that enters
\* it charging clears isCharging and drives PIN_ENABLE low (before the button
\* is read) exactly if capacity / 1000, after this cycle's integration, is
\* at least limit_val[0].
C1_StopAtCapacity ==
  [][(LimitStepCharging /\ limit = 0) =>
       ((isCharging' = 0 /\ pinEnable' = 0)
          <=> Thousands(capacity) >= At(limit_val, 0))]_vars

C1_Witness ==
  StoppedByLimit /\ limit = 0 /\ Thousands(capacity) = At(limit_val, 0)

\* C2: with the mWh limit selected, the limit check of a cycle that enters
\* it charging clears isCharging and drives PIN_ENABLE low exactly if
\* energy / 1000, after this cycle's integration, is at least limit_val[1].
C2_StopAtEnergy ==
  [][(LimitStepCharging /\ limit = 1) =>
       ((isCharging' = 0 /\ pinEnable' = 0)
          <=> Thousands(energy) >= At(limit_val, 1))]_vars

C2_Witness ==
  StoppedByLimit /\ limit = 1 /\ Thousands(energy) = At(limit_val, 1)


\* the timestamp of the cycle that armed the dwell deadline, and the time
\* from it to the current timestamp, both modulo 2^32
ArmedAt == Sub32(limitmillis, From16(DWELL_MS))

SinceArmed == Sub32(nowmillis, ArmedAt)

\* C3: with the mA limit selected, the limit check does not stop the
\* charging in a cycle whose timestamp is fewer than 5000 ms (modulo 2^32)
\* after the timestamp of the cycle that last armed the dwell deadline,
\* whatever the counter was when it was armed.
C3_NoStopWithinDwell ==
  [][(LimitStepCharging /\ limit = 2 /\ limitmillis # UNINIT
        /\ ~Ge32(SinceArmed, From16(DWELL_MS)))
       => isCharging' # 0]_vars

\* C4: with the mA limit selected and charging, a cycle whose current is at
\* least limit_val[2] sets the dwell deadline to nowmillis + 5000 (modulo
\* 2^32) and does not stop the charging; a cycle whose current is below
\* limit_val[2] leaves the deadline as it is.
C4_RearmAtOrAboveLimit ==
  [][(LimitStepCharging /\ limit = 2) =>
       IF current >= At(limit_val, 2)
         THEN limitmillis' = Add32(nowmillis, From16(DWELL_MS)) /\ isCharging' # 0
         ELSE limitmillis' = limitmillis]_vars

\* a cycle reading exactly the limit has re-armed a deadline that an earlier
\* cycle had set
C4_Witness ==
  /\ pc = "button" /\ oled.charging = 1 /\ isCharging # 0 /\ limit = 2
  /\ current = At(limit_val, 2)
  /\ interval # Zero32
  /\ limitmillis = Add32(nowmillis, From16(DWELL_MS))

\* C5: with the mA limit selected, charging with the current below the limit
\* and no button pressed eventually stops as the clock advances, whatever the
\* counter was when the deadline was armed. The stop needs a timestamp above
\* the deadline, so the deadline of an ongoing charge must be one that some
\* value of the counter exceeds.
C5_DeadlineCanPass ==
  (isCharging # 0 /\ limit = 2) =>
    \E hi \in {limitmillis[1], W16 - 1} :
      \E lo \in {limitmillis[2], W16 - 1} : Gt32(<<hi, lo>>, limitmillis)

\* C6: with the min limit selected, the limit check of a cycle that enters
\* it charging stops the charging exactly if
\* min(chargetime / 1000, 35999) / 60 >= limit_val[3], for every 32-bit
\* chargetime.
C6_StopAtMinutes ==
  [][(LimitStepCharging /\ limit = 3) =>
       (isCharging' = 0
          <=> (IF Thousands(chargetime) > SECONDS_MAX
                 THEN SECONDS_MAX ELSE Thousands(chargetime)) \div 60
              >= At(limit_val, 3))]_vars


\* C7: with the min limit selected and any configurable limit value, a
\* charge that is left alone (no button is read from cycle MaxCyclesLive on)
\* while the clock keeps advancing eventually stops, with PIN_ENABLE low.
C7_TimedChargeStops ==
  (isCharging # 0 /\ limit = 3 /\ cycle = MaxCyclesLive)
    ~> (isCharging = 0 /\ pinEnable = 0)

\* the limit check has stopped a charge at the largest configurable limit
C7_Witness ==
  /\ StoppedByLimit /\ limit = 3 /\ cycle = MaxCyclesLive
  /\ At(limit_val, 3) = At(limit_max, 3)

\* C8: at startup and at the end of every cycle PIN_ENABLE is high exactly
\* if isCharging is set; the pin is never high while isCharging is clear.
C8_PinFollowsCharging ==
  (pinEnable = 1) <=> (isCharging # 0)

\* the end of a cycle whose limit check has stopped the charging
C8_Witness ==
  /\ pc = "oled" /\ oled.charging = 1 /\ button = NO_KEY
  /\ isCharging = 0 /\ pinEnable = 0

\* the button read by this step is START and the one before was not
StartEdge == pc = "button" /\ button' = KEY_START /\ lastbutton # KEY_START

\* C9: isCharging is set only by a cycle that reads START after another
\* reading; it is cleared only by such a cycle or by the limit check. No
\* other step changes it.
C9_ChargingChangesByStartOrLimit ==
  /\ [][(isCharging = 0 /\ isCharging' # 0) => StartEdge]_vars
  /\ [][(isCharging # 0 /\ isCharging' = 0) => (StartEdge \/ pc = "limit")]_vars

\* START is held for a second cycle and the charging it started goes on
C9_Witness ==
  /\ pc = "oled" /\ button = KEY_START /\ oled.charging = 1 /\ isCharging # 0

\* every limit value lies between its minimum and its maximum
LimitsInRange ==
  \A k \in 0..3 :
    At(limit_min, k) <= At(limit_val, k) /\ At(limit_val, k) <= At(limit_max, k)

\* the step taken reads the button b
Reads(b) == pc = "button" /\ pc' = "oled" /\ button' = b

\* C10: from the default limits, whatever buttons are read, each limit
\* value stays between its minimum and its maximum; INC at the maximum and
\* DEC at the minimum leave the value as it is.
C10_LimitsStayInRange ==
  /\ []LimitsInRange
  /\ [][(Reads(KEY_INC) /\ At(limit_val, limit) = At(limit_max, limit))
          => limit_val' = limit_val]_vars
  /\ [][(Reads(KEY_DEC) /\ At(limit_val, limit) = At(limit_min, limit))
          => limit_val' = limit_val]_vars

\* INC has been read, not charging, with the selected value at its maximum,
\* where the display of the cycle before showed it already
C10_Witness ==
  /\ pc = "oled" /\ button = KEY_INC /\ isCharging = 0
  /\ oled.unit = limit /\ oled.limit = At(limit_max, limit)
  /\ At(limit_val, limit) = At(limit_max, limit)

\* startup is over: EEPROM_get() has returned and the loop is not entered yet
Started == pc = "mil_cli" /\ ret = "setup"

\* the step taken is EEPROM_get()
Boots == pc = "eeprom" /\ pc' = "mil_cli"

\* the EEPROM carries the identifier
Marked(ee) == eeprom_read_word(ee, 0) = EEPROM_IDENT

\* the settings in RAM are those the EEPROM ee holds
Holds(ee, vals, lim, show) ==
  EEPROM_readVals(ee) = vals /\ ee[10] = lim /\ ee[11] = show

\* the defaults, as the claims give them
DefaultVals == <<3000, 15000, 200, 180>>

\* C11: whatever the EEPROM holds at power-up, after startup limit is in
\* 0..3, showValue in 0..2 and every limit value between its minimum and
\* its maximum; an EEPROM without the identifier yields the defaults.
C11_StartsInRange ==
  /\ [](Started => (limit \in 0..3 /\ showValue \in 0..2 /\ LimitsInRange))
  /\ [][(Boots /\ ~Marked(eeprom))
          => (limit_val' = DefaultVals /\ limit' = 0 /\ showValue' = 0)]_vars

\* C12: startup on an EEPROM without the identifier writes the identifier
\* and the defaults (3000, 15000, 200, 180; kind 0; display mode 0); the
\* identifier then stays, through power cycles too, and a startup on these
\* contents loads the same values.
C12_DefaultsPersisted ==
  /\ [][(Boots /\ ~Marked(eeprom))
          => (Marked(eeprom') /\ Holds(eeprom', DefaultVals, 0, 0)
              /\ limit_val' = DefaultVals /\ limit' = 0 /\ showValue' = 0)]_vars
  /\ [][Marked(eeprom) => Marked(eeprom')]_vars
  /\ [][(Boots /\ Marked(eeprom) /\ Holds(eeprom, DefaultVals, 0, 0))
          => (limit_val' = DefaultVals /\ limit' = 0 /\ showValue' = 0)]_vars

\* a later startup has found the defaults that the first one wrote
C12_Witness ==
  /\ Started /\ cycle > 0 /\ eeprom = EE_SAVED(DefaultVals, 0, 0)
  /\ limit_val = DefaultVals /\ limit = 0 /\ showValue = 0

\* C13: the EEPROM written by a save reads back as the four limit values,
\* the kind and the display mode that were saved, and a startup on an EEPROM
\* with the identifier takes exactly what it reads.
C13_SaveThenLoad ==
  /\ [][StartEdge => Holds(eeprom', limit_val, limit, showValue)]_vars
  /\ [][(Boots /\ Marked(eeprom))
          => Holds(eeprom, limit_val', limit', showValue')]_vars

\* a startup has loaded limit values, changed from the defaults, that a run
\* before the power cycle saved
C13_Witness ==
  /\ Started /\ cycle > 0 /\ limit_val # limit_def
  /\ Holds(eeprom, limit_val, limit, showValue)

\* C14: the settings are saved at every change of isCharging, by a START
\* edge or by the limit check, so that after it the EEPROM holds the limit
\* values, the kind and the display mode of that moment.
C14_SavedAtEveryTransition ==
  [][(isCharging' # isCharging)
      => Holds(eeprom', limit_val', limit', showValue')]_vars

\* C15: in the loop the EEPROM changes only in a cycle that reads START
\* after another reading, and what it then holds is the identifier and the
\* settings, nothing of the totals.
C15_StoreWrittenOnlyAtStart ==
  /\ [][(pc # "eeprom" /\ eeprom' # eeprom) => StartEdge]_vars
  /\ [][StartEdge => eeprom' = EE_SAVED(limit_val, limit, showValue)]_vars

\* a START edge has paused a charge that has accumulated capacity and charge
\* time, and the EEPROM holds the identifier and the settings
C15_Witness ==
  /\ pc = "oled" /\ button = KEY_START /\ isCharging = 0
  /\ capacity # Zero32 /\ chargetime # Zero32
  /\ eeprom = EE_SAVED(limit_val, limit, showValue)

\* C16: a cycle that reads SELECT advances the selection (the limit kind
\* when paused, the display mode when charging) if the reading before was
\* not SELECT, and leaves both as they are if it was.
C16_SelectOnEdgeOnly ==
  [][Reads(KEY_SELECT) =>
       IF lastbutton # KEY_SELECT
         THEN IF isCharging = 0 THEN limit' # limit ELSE showValue' # showValue
         ELSE limit' = limit /\ showValue' = showValue]_vars

\* paused, SELECT is read in a second cycle in a row and the kind that the
\* display of the cycle before showed is still selected
C16_Witness ==
  /\ pc = "oled" /\ cycle > 0 /\ button = KEY_SELECT
  /\ isCharging = 0 /\ oled.charging = 0 /\ oled.unit = limit

\* C17: a cycle that reads START after another reading toggles isCharging,
\* sets PIN_ENABLE to the new state, saves the settings and sets the dwell
\* deadline to nowmillis + 5000, in either direction; a cycle that reads
\* START after START changes none of them.
C17_StartOnEdgeOnly ==
  [][Reads(KEY_START) =>
       IF lastbutton # KEY_START
         THEN /\ isCharging' = (IF isCharging = 0 THEN 1 ELSE 0)
              /\ pinEnable' = isCharging'
              /\ Holds(eeprom', limit_val, limit, showValue)
              /\ limitmillis' = Add32(nowmillis, From16(DWELL_MS))
         ELSE UNCHANGED <<isCharging, pinEnable, eeprom, limitmillis>>]_vars

\* a START edge has paused a charge that no limit could have stopped
C17_Witness ==
  /\ pc = "oled" /\ button = KEY_START /\ oled.charging = 1 /\ limit = 0
  /\ isCharging = 0 /\ pinEnable = 0
  /\ limitmillis = Add32(nowmillis, From16(DWELL_MS))

\* the selected limit value after one step up, one step down
SteppedUp ==
  [limit_val EXCEPT ![limit + 1] =
     IF @ < At(limit_max, limit) THEN @ + At(limit_inc, limit) ELSE @]

SteppedDown ==
  [limit_val EXCEPT ![limit + 1] =
     IF @ > At(limit_min, limit) THEN @ - At(limit_inc, limit) ELSE @]

\* C18: paused, every cycle that reads INC (DEC) changes the selected limit
\* value by +step (-step) if it is below its maximum (above its minimum)
\* and leaves it otherwise, whatever the reading before was.
C18_StepEveryCycle ==
  /\ [][(Reads(KEY_INC) /\ isCharging = 0) => limit_val' = SteppedUp]_vars
  /\ [][(Reads(KEY_DEC) /\ isCharging = 0) => limit_val' = SteppedDown]_vars

\* INC read in the first two cycles has added two steps
C18_Witness ==
  /\ pc = "oled" /\ cycle = 1 /\ button = KEY_INC /\ isCharging = 0
  /\ At(limit_val, limit) = At(limit_def, limit) + 2 * At(limit_inc, limit)

\* C19: a SELECT edge advances the limit kind 0->1->2->3->0 when paused,
\* leaving the display mode, and the display mode 0->1->2->0 when charging,
\* leaving the limit kind.
C19_SelectAdvancesCyclically ==
  [][(Reads(KEY_SELECT) /\ lastbutton # KEY_SELECT) =>
       IF isCharging = 0
         THEN limit' = (limit + 1) % 4 /\ showValue' = showValue
         ELSE showValue' = (showValue + 1) % 3 /\ limit' = limit]_vars

\* charging, SELECT has taken the display mode from 2, where the display of
\* the cycle before showed the time and one value, back to 0
C19_Witness ==
  /\ pc = "oled" /\ button = KEY_SELECT /\ isCharging # 0 /\ oled.charging = 1
  /\ Len(oled.time) = 3 /\ Len(oled.value) = 1 /\ showValue = 0 /\ limit = 3

\* C20: while isCharging is set no step changes the limit values or the
\* selected kind.
C20_ConfigFrozenWhileCharging ==
  [][isCharging # 0 => (limit_val' = limit_val /\ limit' = limit)]_vars

\* INC is read while charging
C20_Witness ==
  /\ pc = "oled" /\ button = KEY_INC /\ isCharging # 0 /\ oled.charging = 1

\* C21: capacity and energy never decrease from one step to the next, and
\* no step of the loop takes them or chargetime back to zero.
C21_TotalsNeverDecrease ==
  [][/\ Ge32(capacity', capacity) /\ Ge32(energy', energy)
     /\ (chargetime # Zero32 => chargetime' # Zero32)]_vars

\* the step taken is the time calculation of a cycle
TimingStep == pc = "timing" /\ pc' = "totals"

\* the step taken is the integration of a cycle
TotalsStep == pc = "totals" /\ pc' = "limit"

\* a uint32_t below 2^31 as a natural
Natural(a) == a[1] * W16 + a[2]

\* C22: the time calculation of a cycle adds exactly the interval of the
\* cycle to chargetime when the cycle began charging and leaves chargetime
\* alone when it began paused; no other step changes chargetime.
C22_ChargeTimeGrowsWhileCharging ==
  /\ [][TimingStep /\ isCharging # 0 =>
          chargetime' = Add32(chargetime, interval')]_vars
  /\ [][TimingStep /\ isCharging = 0 => chargetime' = chargetime]_vars
  /\ [][~TimingStep => chargetime' = chargetime]_vars

\* two charging cycles, of 3600 ms and of 1 ms
C22_Witness ==
  /\ pc = "totals" /\ isCharging # 0 /\ interval = From16(1)
  /\ chargetime = From16(3601)

\* C23: the integration of a cycle adds exactly
\* floor(interval * current / 3600) to capacity, with nothing rounded up and
\* no remainder carried over: 3600 ms at 1000 mA add 1000, 1 ms at 5 mA adds 0.
C23_CapacityIncrement ==
  [][TotalsStep =>
       capacity' = Add32(capacity,
                         From31((Natural(interval) * current) \div 3600))]_vars

\* a cycle of 3600 ms at 1000 mA and then two of 1 ms at 5 mA
C23_Witness ==
  /\ pc = "limit" /\ cycle = MaxCyclesMeter - 1
  /\ interval = From16(1) /\ current = 5 /\ lastmillis = From16(3602)
  /\ capacity = From16(1000)

\* power in mW of v mV and c mA, as a natural
Milliwatts(v, c) == (v * c) \div 1000

\* C24: the integration of a cycle adds exactly
\* floor(interval * floor(voltage * current / 1000) / 3600) to energy, for
\* every voltage and current of the sensor: the power is not cut to 16 bits.
C24_EnergyIncrement ==
  [][TotalsStep =>
       energy' = Add32(energy,
                       From31((Natural(interval) * Milliwatts(voltage, current))
                                \div 3600))]_vars

\* C25: the interval of a cycle is (nowmillis - lastmillis) modulo 2^32, so
\* that lastmillis = 4294967290 and nowmillis = 5 give 11, and lastmillis is
\* set to nowmillis in every cycle.
C25_IntervalAcrossWrap ==
  [][TimingStep =>
       /\ Add32(lastmillis, interval') = nowmillis
       /\ lastmillis' = nowmillis]_vars

\* the cycle from 4294967290 to 5 has an interval of 11
C25_Witness ==
  /\ pc = "totals" /\ lastmillis = From16(5) /\ interval = From16(11)

\* MIL_read is loading the bytes of the counter, or has loaded them all
Loading == pc \in {LoadAt[k] : k \in 1 .. 4}

\* C26: whatever the interrupt does, the value MIL_read returns is the value
\* of the counter at the instant of the return, and the counter does not
\* change while MIL_read loads its bytes.
C26_ReadIsAtomic ==
  /\ [](pc = "mil_sei" => mil_result = MIL_counter)
  /\ [][Loading => MIL_counter' = MIL_counter]_vars

\* the read that follows the step of the counter from 4294967290 to 5
C26_Witness ==
  /\ pc = "mil_sei" /\ ret = "loop"
  /\ mil_result = From16(5) /\ lastmillis = <<W16 - 1, W16 - 6>>

\* a step of a cycle outside MIL_read
OutsideRead ==
  \/ pc \in {"sense", "timing", "totals", "limit", "button", "oled", "delay"}
  \/ pc = "mil_cli" /\ ret = "loop"

\* C27: the return of MIL_read enables the interrupts, they are enabled
\* before the first cycle of the loop begins, and they are enabled at every
\* step of a cycle outside MIL_read.
C27_InterruptsOffOnlyInRead ==
  /\ [][pc = "mil_sei" => iflag' = 1 /\ timsk' = 1]_vars
  /\ [](OutsideRead => iflag = 1 /\ timsk = 1)

\* the end of a cycle in which the interrupt was served
C27_Witness ==
  /\ pc = "delay" /\ cycle = MaxCycles - 1 /\ iflag = 1 /\ ticked = 1

\* C28: the counter changes only in a step of the interrupt, which adds 1
\* and changes nothing that the loop owns; no step of the loop changes it;
\* and a value read by MIL_read is not below the value read before.
C28_SingleWriter ==
  /\ [][MIL_counter' # MIL_counter =>
          /\ MIL_counter' = Add32(MIL_counter, From16(1))
          /\ pc' = pc /\ iflag = 1 /\ timsk = 1]_vars
  /\ [][pc' # pc => MIL_counter' = MIL_counter]_vars
  /\ [][pc = "mil_sei" /\ ret = "loop" => Ge32(nowmillis', lastmillis)]_vars

\* a read of 4 after a read of 1
C28_Witness ==
  /\ pc = "timing" /\ lastmillis = From16(1) /\ nowmillis = From16(4)

\* the steps of the program in the order of the source, as pairs of places
StepOrder ==
  {<<"setup", "eeprom">>, <<"eeprom", "mil_cli">>,
   <<"sense", "mil_cli">>, <<"mil_cli", "mil_load">>,
   <<"mil_load", "mil_load1">>, <<"mil_load1", "mil_load2">>,
   <<"mil_load2", "mil_load3">>, <<"mil_load3", "mil_sei">>,
   <<"mil_sei", "sense">>, <<"mil_sei", "timing">>,
   <<"timing", "totals">>, <<"totals", "limit">>, <<"limit", "button">>,
   <<"button", "oled">>, <<"oled", "delay">>, <<"delay", "sense">>}

\* C29: the steps of a cycle follow each other in the order sample, time,
\* integration, limit check (which also drives the pin low when it stops the
\* charging), buttons, display, delay, and each of them alone changes what it
\* computes: the limit check of a cycle therefore finds the totals of this
\* cycle's sample and the buttons as the cycle before left them.
C29_StepsInOrder ==
  /\ [][pc' # pc => <<pc, pc'>> \in StepOrder]_vars
  /\ [][pc = "mil_sei" => (pc' = "timing" <=> ret = "loop")]_vars
  /\ [][sampleVars' # sampleVars => pc = "sense"]_vars
  /\ [][<<interval, chargetime, seconds, minutes>>'
           # <<interval, chargetime, seconds, minutes>> => pc = "timing"]_vars
  /\ [][totalVars' # totalVars => pc = "totals"]_vars
  /\ [][isCharging # 0 /\ isCharging' = 0 /\ pc # "button" =>
          pc = "limit" /\ pinEnable' = 0]_vars
  /\ [][<<buttonVars, configVars>>' # <<buttonVars, configVars>> =>
          pc = "button" \/ pc = "eeprom"]_vars
  /\ [][oled' # oled => pc = "oled"]_vars

\* the limit check has stopped the charging in a cycle without a key: the
\* display still shows the charging of the cycle before
C29_Witness ==
  /\ pc = "oled" /\ button = NO_KEY /\ oled.charging = 1
  /\ isCharging = 0 /\ pinEnable = 0 /\ capacity # Zero32

\* the step taken is the sample acquisition of a cycle
SenseStep == pc = "sense" /\ pc' = "mil_cli"

\* C30: the current of a sample is 0 when the register read is above 32767
\* or below 5 and is the register read otherwise, so the current the loop
\* uses is always 0 or between 5 and 32767.
C30_CurrentReading ==
  /\ [][SenseStep =>
          current' = IF ina_result' > 32767 \/ ina_result' < 5
                       THEN 0 ELSE ina_result']_vars
  /\ [](current = 0 \/ current \in 5 .. 32767)

\* a register of 4 read as 0 in the cycle after a register of 32767
C30_Witness ==
  /\ pc = "timing" /\ ina_result = 4 /\ current = 0
  /\ capacity = From16(32767)

\* every limit value is a whole number of steps above its minimum
Aligned ==
  \A k \in 0 .. 3 :
    /\ At(limit_val, k) >= At(limit_min, k)
    /\ (At(limit_val, k) - At(limit_min, k)) % At(limit_inc, k) = 0

\* C31: from the default limits, whatever buttons are read, every limit
\* value is its minimum plus a whole number of steps, and so are the maxima:
\* a value below its maximum is at least one step below it, and a value
\* above its minimum at least one step above it.
C31_LimitsStepAligned ==
  /\ []Aligned
  /\ [](\A k \in 0 .. 3 :
          /\ (At(limit_max, k) - At(limit_min, k)) % At(limit_inc, k) = 0
          /\ At(limit_val, k) < At(limit_max, k)
                => At(limit_val, k) + At(limit_inc, k) <= At(limit_max, k)
          /\ At(limit_val, k) > At(limit_min, k)
                => At(limit_val, k) - At(limit_inc, k) >= At(limit_min, k))

\* DEC has taken the time limit from its default down to its minimum
C31_Witness ==
  /\ pc = "oled" /\ button = KEY_DEC /\ limit = 3
  /\ At(limit_val, 3) = At(limit_min, 3)
  /\ oled.limit = At(limit_min, 3) + At(limit_inc, 3)

\* C32: seconds is at most 35999 and minutes at most 599 in every cycle, so
\* that the time on the display has a single digit of hours and minutes and
\* seconds between 0 and 59.
C32_DurationCapped ==
  /\ [](seconds <= SECONDS_MAX /\ minutes <= 599)
  /\ [](oled.time # <<>> =>
          /\ oled.time[1] \in 0 .. 9
          /\ oled.time[2] \in 0 .. 59
          /\ oled.time[3] \in 0 .. 59)

\* the display of a charge time of 50 331 s
C32_Witness ==
  /\ pc = "delay" /\ oled.time = <<9, 59, 59>>
  /\ Thousands(chargetime) > SECONDS_MAX

\* the step taken is the display update of a cycle
RenderStep == pc = "oled" /\ pc' = "delay"

\* C33: the display update prints the elapsed time exactly in the cycles in
\* which isCharging is set when the display is updated, and not while paused.
C33_TimeShownWhileCharging ==
  [][RenderStep => (oled'.time # <<>> <=> isCharging # 0)]_vars

\* the total of the selected kind (0: mAh, 1: mWh) has reached its limit
TotalMet ==
  \/ limit = 0 /\ Thousands(capacity) >= At(limit_val, 0)
  \/ limit = 1 /\ Thousands(energy) >= At(limit_val, 1)

\* the places from the display update of a cycle to the integration of the
\* next one
BeforeTotals ==
  pc \in {"oled", "delay", "sense", "mil_cli", "mil_load", "mil_load1",
          "mil_load2", "mil_load3", "mil_sei", "timing", "totals"}

\* C34: with the mAh or mWh limit selected and its total at or above the
\* limit, a START edge while paused switches the output on for the rest of
\* the cycle, and the limit check of the next cycle switches it off again:
\* no limit check leaves the output on with the limit met, and the output is
\* on with the limit met before a limit check only in the cycle after the
\* one that read START.
C34_StartWithLimitMet ==
  /\ [][(StartEdge /\ pc' = "oled" /\ isCharging = 0 /\ TotalMet)
          => (isCharging' # 0 /\ pinEnable' = 1)]_vars
  /\ [][(LimitStepCharging /\ TotalMet)
          => (isCharging' = 0 /\ pinEnable' = 0)]_vars
  /\ [](pc = "button" /\ TotalMet => isCharging = 0 /\ pinEnable = 0)
  /\ [](BeforeTotals /\ TotalMet /\ pinEnable = 1 => button = KEY_START)

\* the limit check of the cycle after a START with the limit already met:
\* no time has passed, the charge counted so far was measured while paused
C34_Witness ==
  /\ pc = "limit" /\ isCharging # 0 /\ pinEnable = 1 /\ TotalMet
  /\ button = KEY_START /\ chargetime = Zero32

\* C35: limitmillis is assigned before it is read: whenever isCharging is
\* set, and so whenever the mA case of the limit check compares nowmillis
\* with limitmillis, a START edge has assigned limitmillis; isCharging is
\* set by a START edge only, in the step that assigns it.
C35_DeadlineAssignedBeforeRead ==
  /\ [](isCharging # 0 => limitmillis # UNINIT)
  /\ [][(isCharging = 0 /\ isCharging' # 0)
          => (StartEdge /\ limitmillis' = Add32(nowmillis, From16(DWELL_MS)))]_vars

\* the mA case compares nowmillis with a deadline that has passed
C35_Witness ==
  /\ pc = "limit" /\ isCharging # 0 /\ limit = 2
  /\ current < At(limit_val, 2)
  /\ limitmillis # UNINIT /\ Gt32(nowmillis, limitmillis)

\* C36: capacity and energy do not depend on isCharging: at 3600 mA and
\* 3600 mW, where a cycle adds its interval in ms to both, they equal the
\* time of the last sample whatever buttons were read and whether the
\* cycles were charging or paused; what was measured while paused counts
\* toward the limit of a later charge.
C36_TotalsIgnoreCharging ==
  [](ret = "loop" /\ pc # "totals" =>
       capacity = lastmillis /\ energy = lastmillis)

\* the limit check has stopped a charge of no duration on the 500 mAh that
\* were measured while paused
C36_Witness ==
  /\ StoppedByLimit /\ limit = 0 /\ chargetime = Zero32
  /\ capacity = From31(500000)

\* C37: when the limit check of a cycle stops the charging, it drives
\* PIN_ENABLE low before the button is read; a START edge read in the same
\* cycle then sets isCharging again, drives PIN_ENABLE high, sets limitmillis
\* to nowmillis + 5000 and saves the settings, and the cycle ends charging
\* with the output high.
C37_StopThenStartInOneCycle ==
  /\ [][(LimitStepCharging /\ isCharging' = 0) => pinEnable' = 0]_vars
  /\ [][(StoppedByLimit /\ StartEdge /\ pc' = "oled") =>
          /\ isCharging' # 0 /\ pinEnable' = 1
          /\ limitmillis' = Add32(nowmillis, From16(DWELL_MS))
          /\ Marked(eeprom') /\ Holds(eeprom', limit_val, limit, showValue)]_vars
  /\ [][(pc = "oled" \/ pc = "delay")
          => (isCharging' = isCharging /\ pinEnable' = pinEnable)]_vars

\* the end of a cycle that began charging (as the display still shows),
\* with a current below the limit, and in which time has passed and START
\* has set the deadline: its limit check has stopped the charging and its
\* START edge has resumed it
C37_Witness ==
  /\ pc = "oled" /\ button = KEY_START /\ oled.charging = 1
  /\ isCharging # 0 /\ pinEnable = 1 /\ limit = 2
  /\ current < At(limit_val, 2) /\ interval # Zero32
  /\ limitmillis = Add32(nowmillis, From16(DWELL_MS))

\* C38: from a valid configuration, whatever buttons are read, limit stays
\* in 0..3 and showValue in 0..2 in every state, so that limit_val[limit],
\* limit_min[limit], limit_max[limit], limit_inc[limit] and the unit string
\* limit_s + 4 * limit are taken inside their tables.
C38_SelectorsInRange ==
  /\ limit \in 0 .. 3
  /\ showValue \in 0 .. 2
  /\ oled.unit \in 0 .. 3

\* SELECT has taken the limit kind from 3 round to 0, with the display mode
\* at its last value
C38_Witness ==
  /\ pc = "oled" /\ button = KEY_SELECT /\ isCharging = 0
  /\ limit = 0 /\ oled.unit = 3 /\ showValue = 2

=============================================================================
